---- MODULE Spec2Model ----
(***************************************************************************)
(* Gonio Visualizer Generator: the Worker.run pipeline (load, normalise,   *)
(* segment, render, encode, clean up, report) of "Visualizer Generator.py" *)
(* and the GonioVisualizer widget that starts Workers and receives their   *)
(* signals.                                                                *)
(*                                                                         *)
(* Sample rates, frame rates and sample counts are scaled down to small    *)
(* integers; the arithmetic (int(sr / fps), len // frame_step) is kept.    *)
(***************************************************************************)
EXTENDS Integers, Sequences, FiniteSets, TLC

\* ------------------------------------------------------------------ bounds
MaxSamples == 3
MaxRate == 2
MaxFps == 3
MaxJobs == 2

\* ------------------------------------------------------------- the program
VARIABLES
    worker,         \* Worker id -> the Worker's fields and run()'s locals
    temp_folder,    \* indices i of the frame_%05d.png files in temp_frames
    input_folder,   \* names of the audio copies present in input/
    input_audio,    \* name -> what the copy in input/ holds
    output_folder,  \* names of the videos present in output/
    app,            \* "running", or "aborted" once an exception escaped run()
    process_btn,    \* GonioVisualizer.process_btn.isEnabled()
    audio_file,     \* GonioVisualizer.audio_file
    progress,       \* GonioVisualizer.progress.value()
    label,          \* GonioVisualizer.label.text(), by kind of message
    current,        \* GonioVisualizer.worker: id of the last Worker started
    queue,          \* signals emitted by Workers, not yet delivered to slots
    vizlab,         \* vizlab.py's Worker: its fields and run()'s locals
    vizlab_temp     \* indices i of the frame files in VizLab's temp_frames

vars == <<worker, temp_folder, input_folder, input_audio, output_folder, app,
          process_btn, audio_file, progress, label, current, queue,
          vizlab, vizlab_temp>>

\* The state of "Visualizer Generator.py", and that of vizlab.py.
generator == <<worker, temp_folder, input_folder, input_audio, output_folder, app,
               process_btn, audio_file, progress, label, current, queue>>

variant == <<vizlab, vizlab_temp>>

gui == <<process_btn, audio_file, progress, label, current>>

Workers == 1..MaxJobs

AudioFiles == {"a.mp3"}

\* What librosa.load finds in a file: whether it decodes, its channel count,
\* samples per channel, sample rate, and whether each channel is all zero.
AudioContents ==
    [decodable : BOOLEAN, channels : {1, 2}, len : 0..MaxSamples,
     sr : 1..MaxRate, left_silent : BOOLEAN, right_silent : BOOLEAN]

NoAudio ==
    [decodable |-> FALSE, channels |-> 0, len |-> 0, sr |-> 0,
     left_silent |-> FALSE, right_silent |-> FALSE]

\* A Worker that has not been constructed.
NoWorker ==
    [pc |-> "idle", audio_file |-> "none", fps |-> 0, y |-> NoAudio,
     nan |-> FALSE, frame_step |-> -1, num_frames |-> -1,
     num_frames_generated |-> 0, caught |-> "none",
     signals |-> <<>>, encoder |-> <<>>, stages |-> <<>>]

\* vizlab.py's Worker, not constructed: the file its audio_file path names
\* (what it holds, whether it exists) and the locals of its run().
NoVariant ==
    [pc |-> "idle", fps |-> 0, audio |-> NoAudio, exists |-> FALSE,
     y |-> NoAudio, nan |-> FALSE, frame_step |-> -1, num_frames |-> -1,
     num_frames_generated |-> 0, caught |-> "none",
     signals |-> <<>>, encoder |-> <<>>, stages |-> <<>>]

\* Worker.__init__ followed by start(): run() is about to execute.
NewWorker(f, r) ==
    [NoWorker EXCEPT !.pc = "load", !.stages = <<"load">>,
                     !.audio_file = f, !.fps = r]

ErrProcessing == "Error processing. Check log."
ErrCompile == "Video compilation failed. Check log."
ErrNoFrames == "No frames generated."
MsgProcessed == "Processed with frames."

Signal(s, m, v) == [sig |-> s, msg |-> m, val |-> v]

\* The position of run() moves to `stage`; stages keeps the order of entry.
Enter(rec, stage) == [rec EXCEPT !.pc = stage, !.stages = Append(@, stage)]

\* self.<signal>.emit(...): kept on the Worker in emission order ...
Emitted(rec, s) == [rec EXCEPT !.signals = Append(@, s)]

\* ... and queued for the GUI thread, which runs the connected slot later.
Queued(w, s) == Append(queue, [from |-> w, signal |-> s])

\* except Exception as e: the try block stops; caught names the raising stage.
Raise(rec, where) == Enter([rec EXCEPT !.caught = where], "except")

\* The same never below one sample.
FrameStepAtLeastOne(sr, fps) == IF sr \div fps < 1 THEN 1 ELSE sr \div fps

\* frame_step = int(sr / self.fps)
FrameStep(sr, fps) == sr \div fps

\* The same rounded up: the final partial window counted as a frame.
NumFramesCeil(n, step) == (n + step - 1) \div step

\* num_frames = len(left_channel) // frame_step
NumFrames(n, step) == n \div step

\* The same from the loop index i, not i + 1.
PercentOfIndex(i, n) == (i * 100) \div n

\* int((i + 1) / num_frames * 100): the float product truncated. For the frame
\* counts reached here it equals the exact floor of 100 (i + 1) / num_frames.
Percent(i, n) == ((i + 1) * 100) \div n

\* The same without the test of the frame count.
ShouldCompileAnyCount(w) == worker[w].audio_file \in input_folder

\* if num_frames_generated > 0 and os.path.exists(audio_path)
ShouldCompile(w) ==
    /\ worker[w].num_frames_generated > 0
    /\ worker[w].audio_file \in input_folder

\* The same without the cut: every frame up to the first gap.
ConsumedUncut(n) ==
    {i \in 0..MaxSamples : \A j \in 0..i : j \in temp_folder}

\* The frames ffmpeg's sequence reader consumes from temp_frames: frame_00000
\* onwards up to the first gap, cut by t = n / fps to n frames.
Consumed(n) == {i \in 0..(n - 1) : \A j \in 0..i : j \in temp_folder}

Running(w) == app = "running" /\ worker[w].pc \notin {"idle", "done", "crashed"}

\* y, sr = librosa.load(audio_path, mono=False); left = y[0]; right = y[1]
run_load(w) ==
    /\ Running(w) /\ worker[w].pc = "load"
    /\ LET a == input_audio[worker[w].audio_file]
           fails == \/ worker[w].audio_file \notin input_folder
                    \/ ~a.decodable
                    \/ (a.channels = 1 /\ a.len < 2)
       IN  worker' = [worker EXCEPT ![w] =
               IF fails THEN Raise(@, "load")
               ELSE Enter([@ EXCEPT !.y = a], "normalize")]
    /\ UNCHANGED <<temp_folder, input_folder, input_audio, output_folder, app, gui, queue>>
    /\ UNCHANGED variant

\* left_channel = left_channel / np.max(np.abs(left_channel)), and the right:
\* np.max of an empty array raises; a zero peak divides to NaN and raises nothing.
\* y[0], y[1] of a mono file are scalars and divide the same way.
run_normalize(w) ==
    /\ Running(w) /\ worker[w].pc = "normalize"
    /\ LET a == worker[w].y
       IN  worker' = [worker EXCEPT ![w] =
               IF a.channels = 2 /\ a.len = 0 THEN Raise(@, "normalize")
               ELSE Enter([@ EXCEPT !.nan = a.left_silent \/ a.right_silent],
                          "segment")]
    /\ UNCHANGED <<temp_folder, input_folder, input_audio, output_folder, app, gui, queue>>
    /\ UNCHANGED variant

\* frame_step = int(sr / self.fps); num_frames = len(left_channel) // frame_step:
\* len() of a mono file's scalar raises TypeError, a zero frame_step
\* ZeroDivisionError.
run_segment(w) ==
    /\ Running(w) /\ worker[w].pc = "segment"
    /\ LET a == worker[w].y
           step == FrameStep(a.sr, worker[w].fps)
       IN  worker' = [worker EXCEPT ![w] =
               IF a.channels = 1 \/ step = 0
               THEN Raise([@ EXCEPT !.frame_step = step], "segment")
               ELSE Enter([@ EXCEPT !.frame_step = step,
                                    !.num_frames = NumFrames(a.len, step)],
                          "render")]
    /\ UNCHANGED <<temp_folder, input_folder, input_audio, output_folder, app, gui, queue>>
    /\ UNCHANGED variant

\* for i in range(num_frames): one iteration, or the end of the loop. A frame
\* is drawn and saved, counted, and its progress emitted; drawing or saving
\* may raise, and a raising savefig may leave a file behind.
run_render(w) ==
    /\ Running(w) /\ worker[w].pc = "render"
    /\ LET i == worker[w].num_frames_generated
       IN  IF i >= worker[w].num_frames
           THEN /\ worker' = [worker EXCEPT ![w] = Enter(@, "compile")]
                /\ UNCHANGED <<temp_folder, queue>>
           ELSE \/ /\ temp_folder' = temp_folder \cup {i}
                   /\ LET s == Signal("progress", "", Percent(i, worker[w].num_frames))
                      IN  /\ worker' = [worker EXCEPT ![w] =
                                Emitted([@ EXCEPT !.num_frames_generated = i + 1], s)]
                          /\ queue' = Queued(w, s)
                \/ /\ \E wrote \in BOOLEAN :
                        temp_folder' = IF wrote THEN temp_folder \cup {i}
                                       ELSE temp_folder
                   /\ worker' = [worker EXCEPT ![w] = Raise(@, "render")]
                   /\ UNCHANGED queue
    /\ UNCHANGED <<input_folder, input_audio, output_folder, app, gui>>
    /\ UNCHANGED variant

\* The ways ffmpeg.run ends: the video is written, ffmpeg.Error, or another
\* exception (FileNotFoundError when the ffmpeg executable is missing).
EncoderOutcomes == {"ok", "ffmpeg_error", "exception"}

\* One call of compile_video(audio_path, output_video, num_frames_generated).
compile_video(w, path, outcome) ==
    [n |-> worker[w].num_frames_generated, fps |-> worker[w].fps,
     frames |-> Consumed(worker[w].num_frames_generated),
     path |-> path, outcome |-> outcome]

Called(rec, call) == [rec EXCEPT !.encoder = Append(@, call)]

\* if num_frames_generated > 0 and os.path.exists(audio_path):
\*     success = self.compile_video(...)
\*     if not success: self.error.emit("Video compilation failed ...")
\* at the end of the try block: an exception other than ffmpeg.Error leaves
\* compile_video and is caught by run()'s except clause.
run_compile(w) ==
    /\ Running(w) /\ worker[w].pc = "compile"
    /\ IF ~ShouldCompile(w)
       THEN /\ worker' = [worker EXCEPT ![w] = Enter(@, "cleanup")]
            /\ UNCHANGED <<output_folder, queue>>
       ELSE \E outcome \in EncoderOutcomes :
              LET call == compile_video(w, "try", outcome)
                  s == Signal("error", ErrCompile, 0)
              IN  /\ outcome = "ok" => call.frames # {}
                  /\ CASE outcome = "ok" ->
                            /\ worker' = [worker EXCEPT ![w] =
                                   Enter(Called(@, call), "cleanup")]
                            /\ output_folder' = output_folder \cup {worker[w].audio_file}
                            /\ UNCHANGED queue
                       [] outcome = "ffmpeg_error" ->
                            /\ worker' = [worker EXCEPT ![w] =
                                   Enter(Emitted(Called(@, call), s), "cleanup")]
                            /\ queue' = Queued(w, s)
                            /\ UNCHANGED output_folder
                       [] OTHER ->
                            /\ worker' = [worker EXCEPT ![w] =
                                   Raise(Called(@, call), "compile")]
                            /\ UNCHANGED <<output_folder, queue>>
    /\ UNCHANGED <<temp_folder, input_folder, input_audio, app, gui>>
    /\ UNCHANGED variant

\* except Exception as e: logging.error(...); self.error.emit("Error processing ...")
run_except(w) ==
    /\ Running(w) /\ worker[w].pc = "except"
    /\ LET s == Signal("error", ErrProcessing, 0)
       IN  /\ worker' = [worker EXCEPT ![w] = Enter(Emitted(@, s), "partial")]
           /\ queue' = Queued(w, s)
    /\ UNCHANGED <<temp_folder, input_folder, input_audio, output_folder, app, gui>>
    /\ UNCHANGED variant

\* "Attempt partial video compilation", inside the except clause: an exception
\* other than ffmpeg.Error leaves compile_video and, with no handler around
\* it, run() itself.
run_partial(w) ==
    /\ Running(w) /\ worker[w].pc = "partial"
    /\ IF ~ShouldCompile(w)
       THEN /\ worker' = [worker EXCEPT ![w] = Enter(@, "cleanup")]
            /\ UNCHANGED <<output_folder, queue, app>>
       ELSE \E outcome \in EncoderOutcomes :
              LET call == compile_video(w, "except", outcome)
                  s == Signal("error", ErrCompile, 0)
              IN  /\ outcome = "ok" => call.frames # {}
                  /\ CASE outcome = "ok" ->
                            /\ worker' = [worker EXCEPT ![w] =
                                   Enter(Called(@, call), "cleanup")]
                            /\ output_folder' = output_folder \cup {worker[w].audio_file}
                            /\ UNCHANGED <<queue, app>>
                       [] outcome = "ffmpeg_error" ->
                            /\ worker' = [worker EXCEPT ![w] =
                                   Enter(Emitted(Called(@, call), s), "cleanup")]
                            /\ queue' = Queued(w, s)
                            /\ UNCHANGED <<output_folder, app>>
                       [] OTHER ->
                            /\ worker' = [worker EXCEPT ![w] =
                                   Enter(Called(@, call), "crashed")]
                            /\ app' = "aborted"
                            /\ UNCHANGED <<output_folder, queue>>
    /\ UNCHANGED <<temp_folder, input_folder, input_audio, gui>>
    /\ UNCHANGED variant

\* for file in os.listdir(temp_folder): if file.endswith('.png'): os.remove(...)
\* Every frame file is removed, or os.remove raises at one of them with some
\* already removed, and the exception leaves run().
run_cleanup(w) ==
    /\ Running(w) /\ worker[w].pc = "cleanup"
    /\ \/ /\ temp_folder' = {}
          /\ worker' = [worker EXCEPT ![w] = Enter(@, "cleanup_input")]
          /\ UNCHANGED app
       \/ /\ \E kept \in (SUBSET temp_folder) \ {{}} : temp_folder' = kept
          /\ worker' = [worker EXCEPT ![w] = Enter(@, "crashed")]
          /\ app' = "aborted"
    /\ UNCHANGED <<input_folder, input_audio, output_folder, gui, queue>>
    /\ UNCHANGED variant

\* if os.path.exists(audio_path): os.remove(audio_path)
run_cleanup_input(w) ==
    /\ Running(w) /\ worker[w].pc = "cleanup_input"
    /\ \/ /\ input_folder' = input_folder \ {worker[w].audio_file}
          /\ input_audio' = [f \in AudioFiles |->
                 IF f = worker[w].audio_file THEN NoAudio ELSE input_audio[f]]
          /\ worker' = [worker EXCEPT ![w] = Enter(@, "report")]
          /\ UNCHANGED app
       \/ /\ worker[w].audio_file \in input_folder
          /\ worker' = [worker EXCEPT ![w] = Enter(@, "crashed")]
          /\ app' = "aborted"
          /\ UNCHANGED <<input_folder, input_audio>>
    /\ UNCHANGED <<temp_folder, output_folder, gui, queue>>
    /\ UNCHANGED variant

\* The same with the success summary emitted whatever the count.
TerminalSignalAlwaysFinished(n) == Signal("finished", MsgProcessed, n)

\* if num_frames_generated > 0: self.finished.emit("Processed ... frames.")
\* else: self.error.emit("No frames generated ...")
TerminalSignal(n) ==
    IF n > 0 THEN Signal("finished", MsgProcessed, n)
    ELSE Signal("error", ErrNoFrames, 0)

run_report(w) ==
    /\ Running(w) /\ worker[w].pc = "report"
    /\ LET s == TerminalSignal(worker[w].num_frames_generated)
       IN  /\ worker' = [worker EXCEPT ![w] = Enter(Emitted(@, s), "done")]
           /\ queue' = Queued(w, s)
    /\ UNCHANGED <<temp_folder, input_folder, input_audio, output_folder, app, gui>>
    /\ UNCHANGED variant

\* Worker.run, one step of it.
run(w) ==
    \/ run_load(w)
    \/ run_normalize(w)
    \/ run_segment(w)
    \/ run_render(w)
    \/ run_compile(w)
    \/ run_except(w)
    \/ run_partial(w)
    \/ run_cleanup(w)
    \/ run_cleanup_input(w)
    \/ run_report(w)

\* ------------------------------------------------ one job, on its own
\* A Worker constructed by start_processing for the selected file at one of
\* the frame rates, the temp folder empty (cleared at boot and by every job),
\* the input copy present (or already consumed by an earlier job).
Init ==
    /\ \E r \in 1..MaxFps :
         worker = [w \in Workers |-> IF w = 1 THEN NewWorker("a.mp3", r) ELSE NoWorker]
    /\ temp_folder = {}
    /\ \/ /\ input_folder = {"a.mp3"}
          /\ input_audio \in [AudioFiles -> AudioContents]
       \/ /\ input_folder = {}
          /\ input_audio = [f \in AudioFiles |-> NoAudio]
    /\ output_folder = {}
    /\ app = "running"
    /\ process_btn = FALSE
    /\ audio_file = "a.mp3"
    /\ progress = 0
    /\ label = "selected"
    /\ current = 1
    /\ queue = <<>>
    /\ vizlab = NoVariant
    /\ vizlab_temp = {}

Next == run(1)

Spec == Init /\ [][Next]_vars

\* ------------------------------------------- the widget and its Workers
\* The files selected in the widget's runs: stereo, audible, at the one rate
\* librosa resamples to; undecodable or not, empty or MaxSamples long.
\* fps_combo: the frame rate chosen in the widget's runs, below the sample rate
\* as each of "30 FPS", "60 FPS", "120 FPS" is.
FpsChoices == {1}

GuiContents ==
    {a \in AudioContents :
        /\ a.channels = 2 /\ a.sr = MaxRate
        /\ ~a.left_silent /\ ~a.right_silent
        /\ a.len \in {0, MaxSamples}}

Started == {w \in Workers : worker[w].pc # "idle"}

\* select_file (and dropEvent, which does the same for a dropped .mp3):
\* shutil.copy into input/, then self.process_btn.setEnabled(True).
select_file ==
    /\ app = "running"
    /\ \E f \in AudioFiles, a \in GuiContents :
         /\ audio_file' = f
         /\ input_folder' = input_folder \cup {f}
         /\ input_audio' = [input_audio EXCEPT ![f] = a]
    /\ label' = "selected"
    /\ process_btn' = TRUE
    /\ UNCHANGED <<worker, temp_folder, output_folder, app, progress, current, queue>>
    /\ UNCHANGED variant

\* start_processing, the Process button's clicked slot: the button is disabled,
\* the bar reset, and a new Worker replaces self.worker and is started.
\* Replacing self.worker drops the last reference to the previous QThread; if
\* that thread is still running Qt may abort the process ("QThread: Destroyed
\* while thread is still running") or the thread may live on.
start_processing ==
    /\ app = "running"
    /\ process_btn
    /\ Cardinality(Started) < MaxJobs
    /\ process_btn' = FALSE
    /\ progress' = 0
    /\ \/ /\ \E r \in FpsChoices :
               worker' = [worker EXCEPT ![Cardinality(Started) + 1] =
                              NewWorker(audio_file, r)]
          /\ current' = Cardinality(Started) + 1
          /\ UNCHANGED app
       \/ /\ current \in Workers /\ Running(current)
          /\ app' = "aborted"
          /\ UNCHANGED <<worker, current>>
    /\ UNCHANGED <<temp_folder, input_folder, input_audio, output_folder,
                   audio_file, label, queue>>
    /\ UNCHANGED variant

\* self.worker.progress.connect(self.progress.setValue), run in the GUI thread
setValue ==
    /\ app = "running"
    /\ queue # <<>> /\ Head(queue).signal.sig = "progress"
    /\ progress' = Head(queue).signal.val
    /\ queue' = Tail(queue)
    /\ UNCHANGED <<worker, temp_folder, input_folder, input_audio, output_folder, app,
                   process_btn, audio_file, label, current>>
    /\ UNCHANGED variant

\* on_finished(message): label, process_btn.setEnabled(True), progress 100
on_finished ==
    /\ app = "running"
    /\ queue # <<>> /\ Head(queue).signal.sig = "finished"
    /\ label' = Head(queue).signal.msg
    /\ process_btn' = TRUE
    /\ progress' = 100
    /\ queue' = Tail(queue)
    /\ UNCHANGED <<worker, temp_folder, input_folder, input_audio, output_folder, app,
                   audio_file, current>>
    /\ UNCHANGED variant

\* on_error(message): label, process_btn.setEnabled(True), progress 0
on_error ==
    /\ app = "running"
    /\ queue # <<>> /\ Head(queue).signal.sig = "error"
    /\ label' = Head(queue).signal.msg
    /\ process_btn' = TRUE
    /\ progress' = 0
    /\ queue' = Tail(queue)
    /\ UNCHANGED <<worker, temp_folder, input_folder, input_audio, output_folder, app,
                   audio_file, current>>
    /\ UNCHANGED variant

\* GonioVisualizer.__init__: nothing selected, Process disabled, temp cleared.
InitGui ==
    /\ worker = [w \in Workers |-> NoWorker]
    /\ temp_folder = {}
    /\ input_folder = {}
    /\ input_audio = [f \in AudioFiles |-> NoAudio]
    /\ output_folder = {}
    /\ app = "running"
    /\ process_btn = FALSE
    /\ audio_file = "none"
    /\ progress = 0
    /\ label = "Drop or Select an Audio File"
    /\ current = 0
    /\ queue = <<>>
    /\ vizlab = NoVariant
    /\ vizlab_temp = {}

NextGui ==
    \/ select_file
    \/ start_processing
    \/ setValue
    \/ on_finished
    \/ on_error
    \/ \E w \in Workers : run(w)

SpecGui == InitGui /\ [][NextGui]_vars
\* ------------------------------------------------ vizlab.py's Worker
\* The same rounded up.
VizlabNumFramesCeil(n, step) == (n + step - 1) \div step

\* num_frames = len(left_channel) // frame_step
VizlabNumFrames(n, step) == n \div step

\* frame_step = int(sr / self.fps)
VizlabFrameStep(sr, fps) == sr \div fps

VizlabRunning == vizlab.pc \notin {"idle", "done"}

\* except Exception as e: print(f"Error: {e}")
VizlabRaise(rec, where) == Enter([rec EXCEPT !.caught = where], "except")

\* y, sr = librosa.load(audio_path, mono=False); left = y[0]; right = y[1]
vizlab_load ==
    /\ vizlab.pc = "load"
    /\ LET a == vizlab.audio
           fails == \/ ~vizlab.exists
                    \/ ~a.decodable
                    \/ (a.channels = 1 /\ a.len < 2)
       IN  vizlab' = IF fails THEN VizlabRaise(vizlab, "load")
                     ELSE Enter([vizlab EXCEPT !.y = a], "normalize")
    /\ UNCHANGED <<vizlab_temp, generator>>

\* left_channel /= np.max(np.abs(left_channel)), and the right, in place
vizlab_normalize ==
    /\ vizlab.pc = "normalize"
    /\ LET a == vizlab.y
       IN  vizlab' = IF a.channels = 2 /\ a.len = 0
                     THEN VizlabRaise(vizlab, "normalize")
                     ELSE Enter([vizlab EXCEPT !.nan = a.left_silent \/ a.right_silent],
                                "segment")
    /\ UNCHANGED <<vizlab_temp, generator>>

\* frame_step = int(sr / self.fps); num_frames = len(left_channel) // frame_step
vizlab_segment ==
    /\ vizlab.pc = "segment"
    /\ LET a == vizlab.y
           step == VizlabFrameStep(a.sr, vizlab.fps)
       IN  vizlab' = IF a.channels = 1 \/ step = 0
                     THEN VizlabRaise([vizlab EXCEPT !.frame_step = step], "segment")
                     ELSE Enter([vizlab EXCEPT
                                    !.frame_step = step,
                                    !.num_frames = VizlabNumFrames(a.len, step)],
                                "render")
    /\ UNCHANGED <<vizlab_temp, generator>>

\* for i in range(num_frames): the frame is drawn, saved as frame_{i:05d}.png,
\* printed and counted; no signal is emitted. Drawing or saving may raise.
vizlab_render ==
    /\ vizlab.pc = "render"
    /\ LET i == vizlab.num_frames_generated
       IN  IF i >= vizlab.num_frames
           THEN /\ vizlab' = Enter(vizlab, "report")
                /\ UNCHANGED vizlab_temp
           ELSE \/ /\ vizlab_temp' = vizlab_temp \cup {i}
                   /\ vizlab' = [vizlab EXCEPT !.num_frames_generated = i + 1]
                \/ /\ \E wrote \in BOOLEAN :
                        vizlab_temp' = IF wrote THEN vizlab_temp \cup {i}
                                       ELSE vizlab_temp
                   /\ vizlab' = VizlabRaise(vizlab, "render")
    /\ UNCHANGED generator

\* except Exception as e: print(...): nothing is emitted, nothing retried
vizlab_except ==
    /\ vizlab.pc = "except"
    /\ vizlab' = Enter(vizlab, "report")
    /\ UNCHANGED <<vizlab_temp, generator>>

\* if num_frames_generated > 0: print("Done: ... frames saved."); run() returns
\* with the frames and the audio file left in place.
vizlab_report ==
    /\ vizlab.pc = "report"
    /\ vizlab' = Enter(vizlab, "done")
    /\ UNCHANGED <<vizlab_temp, generator>>

\* vizlab.py's Worker.run, one step of it.
vizlab_run ==
    \/ vizlab_load
    \/ vizlab_normalize
    \/ vizlab_segment
    \/ vizlab_render
    \/ vizlab_except
    \/ vizlab_report

\* Both scripts started on the same file at the same frame rate, each with
\* its own empty temp folder.
InitVariants ==
    /\ \/ /\ input_folder = {"a.mp3"}
          /\ input_audio \in [AudioFiles -> AudioContents]
       \/ /\ input_folder = {}
          /\ input_audio = [f \in AudioFiles |-> NoAudio]
    /\ \E r \in 1..MaxFps :
         /\ worker = [w \in Workers |-> IF w = 1 THEN NewWorker("a.mp3", r) ELSE NoWorker]
         /\ vizlab = [NoVariant EXCEPT !.pc = "load", !.stages = <<"load">>,
                                       !.fps = r,
                                       !.audio = input_audio["a.mp3"],
                                       !.exists = "a.mp3" \in input_folder]
    /\ temp_folder = {}
    /\ vizlab_temp = {}
    /\ output_folder = {}
    /\ app = "running"
    /\ process_btn = FALSE
    /\ audio_file = "a.mp3"
    /\ progress = 0
    /\ label = "selected"
    /\ current = 1
    /\ queue = <<>>

NextVariants ==
    \/ run(1)
    \/ vizlab_run

SpecVariants == InitVariants /\ [][NextVariants]_vars

\* ---------------------------------------------------------------- claims
Range(q) == {q[i] : i \in DOMAIN q}

\* The finished and error signals a Worker has emitted, in order.
Terminal(w) == SelectSeq(worker[w].signals, LAMBDA s : s.sig \in {"finished", "error"})

EmittedFinished(w) == \E s \in Range(worker[w].signals) : s.sig = "finished"

EmittedError(w) == \E s \in Range(worker[w].signals) : s.sig = "error"

Returned(w) == worker[w].pc = "done"

Ended(w) == worker[w].pc \in {"done", "crashed"}

Visited(w, stage) == stage \in Range(worker[w].stages)

\* run() was left by an exception raised while deleting files.
CleanupFailed(w) == worker[w].pc = "crashed" /\ Visited(w, "cleanup")

\* run() was left by an exception raised by compile_video.
EncoderEscaped(w) == worker[w].pc = "crashed" /\ ~Visited(w, "cleanup")

\* C1: every job that has returned has emitted exactly one message over the
\* finished and error signals together.
C1_ExactlyOneTerminalMessage ==
    \A w \in Workers : Returned(w) => Len(Terminal(w)) = 1

\* C2: on every exit path (success, partial success, load or normalisation
\* failure, encoder failure of any kind) cleanup has run when the job has
\* ended, no frame file is left and the input copy is gone.
C2_CleanupOnEveryExit ==
    \A w \in Workers :
        (Ended(w) /\ ~CleanupFailed(w)) =>
            /\ Visited(w, "cleanup")
            /\ temp_folder = {}
            /\ worker[w].audio_file \notin input_folder

\* C3: after a rendering fault with k > 0 frames generated, the job has, when
\* it ends, invoked the encoder with n = k while frames 0..k-1 were still in
\* the temp folder, and has reported success or an encoding failure.
C3_PartialRecovery ==
    \A w \in Workers :
        (/\ worker[w].caught = "render"
         /\ worker[w].num_frames_generated > 0
         /\ Ended(w) /\ ~CleanupFailed(w)) =>
            /\ worker[w].encoder # <<>>
            /\ worker[w].encoder[1].n = worker[w].num_frames_generated
            /\ worker[w].encoder[1].fps = worker[w].fps
            /\ worker[w].encoder[1].frames = 0..(worker[w].num_frames_generated - 1)
            /\ \/ EmittedFinished(w)
               \/ Signal("error", ErrCompile, 0) \in Range(worker[w].signals)

C5_EncodingFailureIsTerminal ==
    \A w \in Workers :
        (Returned(w) /\ ~worker[w].nan) =>
            /\ (\E c \in Range(worker[w].encoder) : c.outcome = "ffmpeg_error") =>
                  /\ ~EmittedFinished(w)
                  /\ Terminal(w)[Len(Terminal(w))] = Signal("error", ErrCompile, 0)
            /\ EmittedFinished(w) =>
                  \E c \in Range(worker[w].encoder) : c.outcome = "ok"

\* C6: no failure of the encoder, an ffmpeg error or any other exception, on
\* the normal or the partial-recovery path, leaves run() as an exception.
C6_EncoderFailureNeverEscapes ==
    \A w \in Workers :
        (\E c \in Range(worker[w].encoder) : c.outcome # "ok") => ~EncoderEscaped(w)

\* A Worker is inside run().
Active(w) == worker[w].pc \notin {"idle", "done", "crashed"}

\* C7: while a Worker is inside run() the Process button is disabled and no
\* second Worker is inside run().
C7_OneJobAtATime ==
    app = "running" =>
        /\ Cardinality({w \in Workers : Active(w)}) <= 1
        /\ (\E w \in Workers : Active(w)) => ~process_btn

\* The frame count floor(N / s) of a loaded stereo file.
Target(w) == worker[w].y.len \div (worker[w].y.sr \div worker[w].fps)

StereoWithStep(w) ==
    /\ worker[w].y.channels = 2
    /\ worker[w].y.sr \div worker[w].fps >= 1

\* C8: for a stereo input with s = floor(sr / fps) >= 1, num_frames is
\* floor(N / s) once computed, frames_generated is 0 before the first frame,
\* never exceeds num_frames, and changes only by +1, together with the save of
\* frame number frames_generated.
C8_FramesBounded ==
    /\ [](\A w \in Workers :
            StereoWithStep(w) =>
                /\ worker[w].num_frames_generated <= Target(w)
                /\ worker[w].num_frames # -1 =>
                      /\ worker[w].num_frames = Target(w)
                      /\ worker[w].num_frames_generated <= worker[w].num_frames
                /\ ~Visited(w, "render") => worker[w].num_frames_generated = 0)
    /\ [][\A w \in Workers :
            \/ worker'[w].num_frames_generated = worker[w].num_frames_generated
            \/ /\ worker'[w].num_frames_generated = worker[w].num_frames_generated + 1
               /\ worker[w].num_frames_generated \in temp_folder']_vars

\* Every window of an input whose last window is partial has been rendered.
C8_Witness ==
    \E w \in Workers :
        /\ StereoWithStep(w)
        /\ worker[w].num_frames >= 1
        /\ worker[w].num_frames_generated = worker[w].num_frames
        /\ worker[w].y.len % worker[w].frame_step # 0

\* A loaded stereo file with a channel whose peak is zero.
SilentInput(w) ==
    /\ worker[w].y.channels = 2 /\ worker[w].y.len > 0
    /\ worker[w].y.left_silent \/ worker[w].y.right_silent

\* C9: with a silent channel normalisation fails: the job never generates a
\* frame, never invokes the encoder and never emits the success summary.
C9_SilentChannelFails ==
    \A w \in Workers :
        SilentInput(w) =>
            /\ worker[w].num_frames_generated = 0
            /\ worker[w].encoder = <<>>
            /\ ~EmittedFinished(w)

\* The load of the file failed: it is missing or undecodable, mono, or empty.
LoadFailure(w) ==
    \/ worker[w].caught = "load"
    \/ worker[w].y.channels = 1
    \/ (worker[w].y.channels = 2 /\ worker[w].y.len = 0)

\* C10: after a load failure no frame is rendered and the encoder is not
\* invoked; the failure message is emitted before cleanup starts, cleanup runs
\* before the job ends, and a job that returns has emptied the temp folder,
\* removed the input copy and emitted no success summary.
C10_LoadFailure ==
    \A w \in Workers :
        LoadFailure(w) =>
            /\ ~Visited(w, "render")
            /\ worker[w].num_frames_generated = 0
            /\ temp_folder = {}
            /\ worker[w].encoder = <<>>
            /\ ~EmittedFinished(w)
            /\ Visited(w, "cleanup") =>
                  Signal("error", ErrProcessing, 0) \in Range(worker[w].signals)
            /\ Ended(w) => Visited(w, "cleanup")
            /\ Returned(w) =>
                  /\ worker[w].audio_file \notin input_folder
                  /\ Terminal(w)[Len(Terminal(w))].sig = "error"

\* A mono file went through the job to its end.
C10_Witness ==
    \E w \in Workers :
        /\ Returned(w)
        /\ worker[w].y.channels = 1
        /\ worker[w].caught = "segment"

\* The values of the progress signals a Worker has emitted, in order.
ProgressValues(w) ==
    LET p == SelectSeq(worker[w].signals, LAMBDA s : s.sig = "progress")
    IN  [j \in DOMAIN p |-> p[j].val]

\* C11: a Worker has emitted one progress event per generated frame, each an
\* integer in 0..100 and none below the one before; the j-th is 100 exactly
\* when j = num_frames; and every progress event precedes every error or
\* finished event, so none is emitted once rendering is over.
C11_ProgressEvents ==
    \A w \in Workers :
        LET p == ProgressValues(w)
            s == worker[w].signals
        IN  /\ Len(p) = worker[w].num_frames_generated
            /\ \A j \in DOMAIN p :
                  /\ p[j] \in 0..100
                  /\ j > 1 => p[j - 1] <= p[j]
                  /\ p[j] = 100 <=> j = worker[w].num_frames
            /\ Len(p) > 0 => Visited(w, "render")
            /\ \A j, k \in DOMAIN s :
                  (j < k /\ s[k].sig = "progress") => s[j].sig = "progress"

\* Three frames rendered and reported, the last as 100.
C11_Witness ==
    \E w \in Workers :
        /\ worker[w].num_frames >= 3
        /\ worker[w].num_frames_generated = worker[w].num_frames
        /\ Returned(w)

\* C12: a deletion that fails during cleanup does not change the outcome: a
\* job that has ended after starting cleanup has emitted, last, the terminal
\* event its frame count calls for.
C12_CleanupFailureNotFatal ==
    \A w \in Workers :
        (Ended(w) /\ Visited(w, "cleanup")) =>
            /\ worker[w].signals # <<>>
            /\ worker[w].signals[Len(worker[w].signals)] =
                  TerminalSignal(worker[w].num_frames_generated)

\* The place of a stage in Loading, Normalizing, Windowing+Rendering,
\* Encoding, Cleanup, terminal.
StageRank(stage) ==
    CASE stage = "load" -> 1
      [] stage = "normalize" -> 2
      [] stage \in {"segment", "render"} -> 3
      [] stage \in {"compile", "except", "partial"} -> 4
      [] stage \in {"cleanup", "cleanup_input"} -> 5
      [] OTHER -> 6

\* The cleanup step of the job has run to its end.
CleanupDone(w) == Visited(w, "report")

\* C13: the stages of a job are entered in the order Loading, Normalizing,
\* Windowing+Rendering, Encoding, Cleanup, terminal, and no finished or error
\* message is emitted before the job's cleanup has run.
C13_StageOrder ==
    \A w \in Workers :
        /\ \A j, k \in DOMAIN worker[w].stages :
              j < k => StageRank(worker[w].stages[j]) <= StageRank(worker[w].stages[k])
        /\ Terminal(w) # <<>> => CleanupDone(w)

\* C14: compile_video is invoked at most once per job.
C14_NoRetry ==
    \A w \in Workers : Len(worker[w].encoder) <= 1

\* A loaded, non-empty stereo file at a frame rate above its sample rate.
DegenerateRate(w) ==
    /\ worker[w].y.channels = 2 /\ worker[w].y.len > 0
    /\ worker[w].fps > worker[w].y.sr

\* C15: with fps above the sample rate frame_step is computed as 0 and the
\* job fails before any frame: frames_generated stays 0, nothing is saved, the
\* encoder is not invoked, the failure message is emitted, cleanup runs before
\* the job ends, and a job that returns ends on an error message.
C15_DegenerateFrameRate ==
    \A w \in Workers :
        DegenerateRate(w) =>
            /\ worker[w].frame_step \in {-1, 0}
            /\ ~Visited(w, "render")
            /\ worker[w].num_frames_generated = 0
            /\ temp_folder = {}
            /\ worker[w].encoder = <<>>
            /\ ~EmittedFinished(w)
            /\ Visited(w, "cleanup") =>
                  /\ worker[w].caught = "segment"
                  /\ Signal("error", ErrProcessing, 0) \in Range(worker[w].signals)
            /\ Ended(w) => Visited(w, "cleanup")
            /\ Returned(w) => Terminal(w)[Len(Terminal(w))].sig = "error"

\* A job at a degenerate rate has returned.
C15_Witness ==
    \E w \in Workers :
        /\ DegenerateRate(w)
        /\ worker[w].frame_step = 0
        /\ Returned(w)

\* The job has not yet deleted its frames.
BeforeCleanup(w) ==
    worker[w].pc \in {"render", "compile", "except", "partial", "cleanup"}

\* C16: in a job started on an empty temp folder, while frames_generated = k
\* and cleanup has not deleted them, frames 0..k-1 are all in the folder and
\* nothing beyond index k is; every encoder call is made with n = k and
\* consumes exactly frames 0..k-1; and a step that adds a file adds the one
\* numbered frames_generated, above every file already there.
C16_FrameStore ==
    /\ [](\A w \in Workers :
            LET k == worker[w].num_frames_generated
            IN  /\ BeforeCleanup(w) =>
                      /\ 0..(k - 1) \subseteq temp_folder
                      /\ temp_folder \subseteq 0..k
                /\ \A c \in Range(worker[w].encoder) :
                      /\ c.n = k
                      /\ c.frames = 0..(k - 1))
    /\ [][\A i \in temp_folder' \ temp_folder :
            /\ \E w \in Workers : Active(w) /\ i = worker[w].num_frames_generated
            /\ \A j \in temp_folder : j < i]_vars

\* The encoder is called after a fault that left the file of frame k behind.
C16_Witness ==
    \E w \in Workers :
        /\ worker[w].encoder # <<>>
        /\ worker[w].encoder[1].n >= 2
        /\ worker[w].encoder[1].n \in temp_folder

\* The stages both scripts have: everything up to the end of the frame loop.
FrontStages == {"load", "normalize", "segment", "render"}

Front(stages) == SelectSeq(stages, LAMBDA s : s \in FrontStages)

\* Where a run's try block failed: the raising stage and, for the frame loop,
\* the index of the raising frame. Encoding and cleanup lie after the loop.
FailurePoint(rec) ==
    IF rec.caught \in {"load", "normalize", "segment"} THEN <<rec.caught, -1>>
    ELSE IF rec.caught = "render" THEN <<"render", rec.num_frames_generated>>
    ELSE <<"none", -1>>

\* Both runs are over: the generator's returned, and so did vizlab.py's.
BothReturned == Returned(1) /\ vizlab.pc = "done"

SameFailurePoints == FailurePoint(worker[1]) = FailurePoint(vizlab)

====
